---------------------------- MODULE Spec2Model ----------------------------
(***************************************************************************)
(* Voice web application: the voice activity detector (AdvancedVAD) and    *)
(* the sequential playback queue (AudioBufferManager) of src/src/App.tsx.  *)
(*                                                                         *)
(* JavaScript numbers are modelled as exact fractions n/d.  d > 0 is a     *)
(* finite value, 1/0 is Infinity, -1/0 is -Infinity and 0/0 is NaN, so     *)
(* that a division by a zero threshold behaves as it does in the program.  *)
(***************************************************************************)
EXTENDS Integers, Sequences, FiniteSets

----------------------------------------------------------------------------
(* Bounds of the model *)

\* the frame counters are not driven past these values
MaxSpeechFrames == 5
MaxSilenceFrames == 10
\* changes of level tolerated inside the calibration window (SpecCal)
MaxCalibChanges == 1
\* frames classified after calibration in SpecCal
MaxPostCal == 1

----------------------------------------------------------------------------
(* Number arithmetic *)

RECURSIVE GCD(_, _)
GCD(a, b) == IF b = 0 THEN a ELSE GCD(b, a % b)

Abs(x) == IF x < 0 THEN -x ELSE x

Sign(x) == IF x > 0 THEN 1 ELSE IF x < 0 THEN -1 ELSE 0

\* the number n/d in lowest terms; d = 0 gives Infinity, -Infinity or NaN
Num(n, d) ==
    IF d = 0 THEN [n |-> Sign(n), d |-> 0]
    ELSE LET g == GCD(Abs(n), Abs(d))
             s == IF d < 0 THEN -1 ELSE 1
         IN  [n |-> (s * n) \div g, d |-> (s * d) \div g]

NaN == [n |-> 0, d |-> 0]
Zero == [n |-> 0, d |-> 1]
One == [n |-> 1, d |-> 1]
Half == [n |-> 1, d |-> 2]

IsNaN(a) == a.d = 0 /\ a.n = 0
IsFinite(a) == a.d > 0

JsAdd(a, b) ==
    IF IsNaN(a) \/ IsNaN(b) THEN NaN
    ELSE IF a.d = 0 /\ b.d = 0 THEN (IF a.n = b.n THEN a ELSE NaN)
    ELSE IF a.d = 0 THEN a
    ELSE IF b.d = 0 THEN b
    ELSE Num(a.n * b.d + b.n * a.d, a.d * b.d)

JsMul(a, b) ==
    IF IsNaN(a) \/ IsNaN(b) THEN NaN
    ELSE Num(a.n * b.n, a.d * b.d)

\* a / b: x/0 is an infinity of the sign of x, 0/0 and Infinity/Infinity are NaN
JsDiv(a, b) ==
    IF IsNaN(a) \/ IsNaN(b) THEN NaN
    ELSE IF b.n < 0 THEN Num(-(a.n * b.d), a.d * (-b.n))
    ELSE Num(a.n * b.d, a.d * b.n)

\* a > b; any comparison with NaN is false
JsGt(a, b) == ~IsNaN(a) /\ ~IsNaN(b) /\ a.n * b.d > b.n * a.d

\* a < b
JsLt(a, b) == JsGt(b, a)

\* Math.min(a, b)
JsMin(a, b) ==
    IF IsNaN(a) \/ IsNaN(b) THEN NaN
    ELSE IF JsLt(a, b) THEN a ELSE b

\* F applied to the value of e, with e evaluated once
Bind(e, F(_)) == CHOOSE r \in {F(x) : x \in {e}} : TRUE

\* array.reduce((a, b) => a + b, 0)
RECURSIVE JsSum(_)
JsSum(s) ==
    IF s = <<>> THEN Zero
    ELSE Bind(JsSum(SubSeq(s, 1, Len(s) - 1)), LAMBDA acc : JsAdd(acc, s[Len(s)]))

\* arithmetic mean as the program computes it: sum / length
Mean(s) == Bind(JsSum(s), LAMBDA sum : JsDiv(sum, [n |-> Len(s), d |-> 1]))


----------------------------------------------------------------------------
(* Inputs *)

\* energies of the frames of a session: silence, a low noise floor, a voice
LowNoise == [n |-> 1, d |-> 100]
Voice == [n |-> 1, d |-> 25]
NoiseLevels == {Zero, LowNoise}
Volumes == {Zero, Voice}
CalVolumes == {Zero, LowNoise, Voice}

\* time-domain frames: empty, alternating signs, constant sign
Frames == {<<>>, <<1, -1, 1, -1>>, <<1, 1>>}

----------------------------------------------------------------------------
(* AdvancedVAD: state *)

VARIABLES
    isSpeaking, speechFrames, silenceFrames, energyThreshold,
    speechConfidence, backgroundNoise, calibrationSamples, isCalibrated,
    energyHistory, zcrHistory,
    \* observation of the detector from outside
    events,        \* callbacks fired by the most recent process() or reset()
    lastCall,      \* the most recent process() or reset() and its energy
    submittedLog,  \* the first CalibrationTarget + 1 energies submitted
    run,           \* qualifying constant-energy frames since a fresh start
    silRun,        \* not speech-like frames in a row counted from Speech
    recent         \* the frames classified since calibration or reset, newest historySize

vadVars == <<isSpeaking, speechFrames, silenceFrames, energyThreshold,
             speechConfidence, backgroundNoise, calibrationSamples,
             isCalibrated, energyHistory, zcrHistory>>
vadObs == <<events, lastCall, submittedLog, run, silRun, recent>>

zcrThreshold == [n |-> 3, d |-> 10]
historySize == 5
calibrationTarget == 30
speechStartThreshold == 2
speechEndThreshold == 8

NoCall == [op |-> "none", volume |-> Zero, calibrated |-> FALSE]

InitVAD ==
    /\ isSpeaking = FALSE
    /\ speechFrames = 0
    /\ silenceFrames = 0
    /\ energyThreshold = [n |-> 3, d |-> 200]
    /\ speechConfidence = Zero
    /\ backgroundNoise = Zero
    /\ calibrationSamples = <<>>
    /\ isCalibrated = FALSE
    /\ energyHistory = <<>>
    /\ zcrHistory = <<>>
    /\ events = <<>>
    /\ lastCall = NoCall
    /\ submittedLog = <<>>
    /\ run = 0
    /\ silRun = -1
    /\ recent = <<>>

----------------------------------------------------------------------------
(* AdvancedVAD: helpers *)

\* changes of level between adjacent entries of s
RECURSIVE Changes(_)
Changes(s) ==
    IF Len(s) < 2 THEN 0
    ELSE Changes(SubSeq(s, 1, Len(s) - 1))
         + (IF s[Len(s)] # s[Len(s) - 1] THEN 1 ELSE 0)

\* occurrences of callback cb in a sequence of fired callbacks
Fired(evs, cb) == Cardinality({i \in 1..Len(evs) : evs[i].cb = cb})

\* energyThreshold = backgroundNoise * 3
ThresholdFrom(noise) == JsMul(noise, [n |-> 3, d |-> 1])

\* number of indices i >= 1 with samples[i] * samples[i - 1] < 0
RECURSIVE Crossings(_)
Crossings(samples) ==
    IF Len(samples) < 2 THEN 0
    ELSE Crossings(SubSeq(samples, 1, Len(samples) - 1))
         + (IF samples[Len(samples)] * samples[Len(samples) - 1] < 0 THEN 1 ELSE 0)

calculateZCR(samples) ==
    IF Len(samples) = 0 THEN Half
    ELSE JsDiv(Num(Crossings(samples), 1), Num(Len(samples), 1))

\* calculateZCR of odia-voiceai.tsx: no test for an empty frame
calculateZCRLegacy(samples) ==
    JsDiv(Num(Crossings(samples), 1), Num(Len(samples), 1))

\* the zcr that process() gives a frame
FrameZCR(samples) == IF Len(samples) > 0 THEN calculateZCR(samples) ELSE Half

\* the newest historySize entries of s
Newest(s) ==
    IF Len(s) > historySize THEN SubSeq(s, Len(s) - historySize + 1, Len(s)) ELSE s

\* variant: nothing is ever shifted out
PushedUnbounded(history, x, overflow) == Append(history, x)

\* push x; the caller shifts when the energy history has outgrown historySize
Pushed(history, x, overflow) ==
    IF overflow THEN Tail(Append(history, x)) ELSE Append(history, x)

\* variant: one criterion is enough
IsSpeechLikeEither(avgEnergy, avgZCR) ==
    JsGt(avgEnergy, energyThreshold) \/ JsGt(avgZCR, zcrThreshold)

IsSpeechLike(avgEnergy, avgZCR) ==
    JsGt(avgEnergy, energyThreshold) /\ JsGt(avgZCR, zcrThreshold)

Ratio(x, limit) == Bind(JsDiv(x, limit), LAMBDA q : JsMin(q, One))

Confidence(avgEnergy, avgZCR) ==
    Bind(Ratio(avgEnergy, JsMul(energyThreshold, [n |-> 3, d |-> 1])), LAMBDA energyConf :
    Bind(Ratio(avgZCR, zcrThreshold), LAMBDA zcrConf :
    Bind(JsAdd(energyConf, zcrConf), LAMBDA total :
         JsDiv(total, [n |-> 2, d |-> 1]))))

\* variant: the confidence callback is forgotten
TelemetryVolumeOnly(volume, confidence) ==
    << [cb |-> "onVolumeChange", arg |-> volume] >>

Telemetry(volume, confidence) ==
    << [cb |-> "onVolumeChange", arg |-> volume],
       [cb |-> "onConfidence", arg |-> confidence] >>

\* variant: >= in place of >
StartsSpeechEarly(speaking, frames) == ~speaking /\ frames >= speechStartThreshold

StartsSpeech(speaking, frames) == ~speaking /\ frames > speechStartThreshold

\* variant: >= in place of >
EndsSpeechEarly(speaking, frames) == speaking /\ frames >= speechEndThreshold

EndsSpeech(speaking, frames) == speaking /\ frames > speechEndThreshold

\* speechFrames after a frame classified as speech (like) or as silence
SpeechFramesAfter(like, frames) == IF like THEN frames + 1 ELSE 0

\* variant: a speech frame leaves the silence counter as it is
SilenceFramesKept(like, frames) == IF like THEN frames ELSE frames + 1

\* silenceFrames after a frame classified as speech (like) or as silence
SilenceFramesAfter(like, frames) == IF like THEN 0 ELSE frames + 1

\* the submitted energies, remembered up to one past the calibration window
Logged(volume) ==
    IF Len(submittedLog) <= calibrationTarget
    THEN Append(submittedLog, volume) ELSE submittedLog

----------------------------------------------------------------------------
(* AdvancedVAD: operations *)

\* variant: the value that completes calibration is averaged in as well
calibrateLate(volume) ==
    IF Len(calibrationSamples) < calibrationTarget
    THEN /\ calibrationSamples' = Append(calibrationSamples, volume)
         /\ UNCHANGED <<backgroundNoise, energyThreshold, isCalibrated>>
    ELSE IF ~isCalibrated
    THEN /\ calibrationSamples' = Append(calibrationSamples, volume)
         /\ \E mean \in {Mean(Append(calibrationSamples, volume))} :
               /\ backgroundNoise' = mean
               /\ energyThreshold' = ThresholdFrom(mean)
         /\ isCalibrated' = TRUE
    ELSE UNCHANGED <<calibrationSamples, backgroundNoise, energyThreshold, isCalibrated>>

\* calibrate(volume): the effect on the calibration fields
calibrate(volume) ==
    IF Len(calibrationSamples) < calibrationTarget
    THEN /\ calibrationSamples' = Append(calibrationSamples, volume)
         /\ UNCHANGED <<backgroundNoise, energyThreshold, isCalibrated>>
    ELSE IF ~isCalibrated
    THEN /\ \E mean \in {Mean(calibrationSamples)} :
               /\ backgroundNoise' = mean
               /\ energyThreshold' = ThresholdFrom(mean)
         /\ isCalibrated' = TRUE
         /\ UNCHANGED calibrationSamples
    ELSE UNCHANGED <<calibrationSamples, backgroundNoise, energyThreshold, isCalibrated>>

\* a direct call of the public calibrate(volume)
Calibrate(volume) ==
    /\ calibrate(volume)
    /\ UNCHANGED <<isSpeaking, speechFrames, silenceFrames, speechConfidence,
                   energyHistory, zcrHistory>>
    /\ UNCHANGED <<events, lastCall, run, silRun, recent>>
    /\ submittedLog' = Logged(volume)

\* variant: the volume meter is driven during calibration too
ProcessUncalibratedMeter(volume, samples) ==
    /\ ~isCalibrated
    /\ calibrate(volume)
    /\ UNCHANGED <<isSpeaking, speechFrames, silenceFrames, speechConfidence,
                   energyHistory, zcrHistory>>
    /\ events' = << [cb |-> "onVolumeChange", arg |-> volume] >>
    /\ lastCall' = [op |-> "process", volume |-> volume, calibrated |-> FALSE]
    /\ submittedLog' = Logged(volume)
    /\ run' = 0
    /\ silRun' = -1
    /\ recent' = <<>>

\* process(volume, samples) before calibration: feed the calibrator, return
ProcessUncalibrated(volume, samples) ==
    /\ ~isCalibrated
    /\ calibrate(volume)
    /\ UNCHANGED <<isSpeaking, speechFrames, silenceFrames, speechConfidence,
                   energyHistory, zcrHistory>>
    /\ events' = <<>>
    /\ lastCall' = [op |-> "process", volume |-> volume, calibrated |-> FALSE]
    /\ submittedLog' = Logged(volume)
    /\ run' = 0
    /\ silRun' = -1
    /\ recent' = <<>>

\* process(volume, samples) once calibrated
ProcessCalibrated(volume, samples) ==
    /\ isCalibrated
    /\ speechFrames < MaxSpeechFrames
    /\ silenceFrames < MaxSilenceFrames
    /\ \E energy \in {volume}, zcr \in {FrameZCR(samples)},
          overflow \in {Len(energyHistory) + 1 > historySize} :
       \E eh \in {Pushed(energyHistory, energy, overflow)},
          zh \in {Pushed(zcrHistory, zcr, overflow)} :
       \E avgEnergy \in {Mean(eh)}, avgZCR \in {Mean(zh)} :
       \E like \in {IsSpeechLike(avgEnergy, avgZCR)},
          conf \in {Confidence(avgEnergy, avgZCR)} :
       \E sf \in {SpeechFramesAfter(like, speechFrames)},
          nf \in {SilenceFramesAfter(like, silenceFrames)} :
       \E starts \in {like /\ StartsSpeech(isSpeaking, sf)},
          ends \in {~like /\ EndsSpeech(isSpeaking, nf)},
          qualifies \in {JsGt(volume, energyThreshold) /\ JsGt(zcr, zcrThreshold)} :
           /\ energyHistory' = eh
           /\ zcrHistory' = zh
           /\ speechConfidence' = conf
           /\ speechFrames' = sf
           /\ silenceFrames' = nf
           /\ isSpeaking' = IF starts THEN TRUE ELSE IF ends THEN FALSE ELSE isSpeaking
           /\ events' = Telemetry(volume, conf)
                        \o (IF starts THEN <<[cb |-> "onSpeechStart", arg |-> Zero]>> ELSE <<>>)
                        \o (IF ends THEN <<[cb |-> "onSpeechEnd", arg |-> Zero]>> ELSE <<>>)
           /\ run' = IF run >= 0 /\ qualifies
                        /\ (run = 0 \/ volume = energyHistory[Len(energyHistory)])
                     THEN run + 1 ELSE -1
           /\ silRun' = IF like THEN (IF isSpeaking \/ starts THEN 0 ELSE -1)
                        ELSE IF silRun >= 0 THEN silRun + 1 ELSE -1
           /\ recent' = Newest(Append(recent, [energy |-> energy, zcr |-> zcr,
                                                empty |-> Len(samples) = 0]))
    /\ UNCHANGED <<calibrationSamples, backgroundNoise, energyThreshold, isCalibrated>>
    /\ lastCall' = [op |-> "process", volume |-> volume, calibrated |-> TRUE]
    /\ submittedLog' = Logged(volume)

Process(volume, samples) ==
    \/ ProcessUncalibrated(volume, samples)
    \/ ProcessCalibrated(volume, samples)

\* variant: reset() also forgets the calibration
ResetAll ==
    /\ isSpeaking' = FALSE
    /\ speechFrames' = 0
    /\ silenceFrames' = 0
    /\ speechConfidence' = Zero
    /\ energyHistory' = <<>>
    /\ zcrHistory' = <<>>
    /\ calibrationSamples' = <<>>
    /\ isCalibrated' = FALSE
    /\ UNCHANGED <<backgroundNoise, energyThreshold>>
    /\ events' = <<>>
    /\ lastCall' = [op |-> "reset", volume |-> Zero, calibrated |-> isCalibrated]
    /\ submittedLog' = submittedLog
    /\ run' = 0
    /\ silRun' = -1
    /\ recent' = <<>>

\* variant: reset() leaves the smoothing histories as they are
ResetKeepsHistory ==
    /\ isSpeaking' = FALSE
    /\ speechFrames' = 0
    /\ silenceFrames' = 0
    /\ speechConfidence' = Zero
    /\ UNCHANGED <<energyHistory, zcrHistory>>
    /\ UNCHANGED <<calibrationSamples, backgroundNoise, energyThreshold, isCalibrated>>
    /\ events' = <<>>
    /\ lastCall' = [op |-> "reset", volume |-> Zero, calibrated |-> isCalibrated]
    /\ submittedLog' = submittedLog
    /\ run' = 0
    /\ silRun' = -1
    /\ recent' = <<>>

Reset ==
    /\ isSpeaking' = FALSE
    /\ speechFrames' = 0
    /\ silenceFrames' = 0
    /\ speechConfidence' = Zero
    /\ energyHistory' = <<>>
    /\ zcrHistory' = <<>>
    /\ UNCHANGED <<calibrationSamples, backgroundNoise, energyThreshold, isCalibrated>>
    /\ events' = <<>>
    /\ lastCall' = [op |-> "reset", volume |-> Zero, calibrated |-> isCalibrated]
    /\ submittedLog' = submittedLog
    /\ run' = 0
    /\ silRun' = -1
    /\ recent' = <<>>

----------------------------------------------------------------------------
(* AudioBufferManager: state *)

\* blobs handed to add() over a session
MaxItems == 3

VARIABLES
    queue, isPlaying, currentAudio,
    audios,      \* every Audio element created by playNext, in creation order
    \* observation of the queue from outside
    enqueued,    \* blobs passed to add(), in call order
    started,     \* blobs whose playback was started, in start order
    natural,     \* no stop() and no playback failure so far
    abmLast      \* the most recent step and the element it concerned

abmVars == <<queue, isPlaying, currentAudio, audios, enqueued, started, natural, abmLast>>

InitABM ==
    /\ queue = <<>>
    /\ isPlaying = FALSE
    /\ currentAudio = 0
    /\ audios = <<>>
    /\ enqueued = <<>>
    /\ started = <<>>
    /\ natural = TRUE
    /\ abmLast = [op |-> "none", el |-> 0]

----------------------------------------------------------------------------
(* ResourceCleanup: state *)

\* resources of each kind that exist over a run of the registry
MaxContexts == 1
MaxStreams == 1
MaxFrameIds == 1
MaxNodes == 1

\* listening sessions over a run of the component (session k captures stream
\* k and builds nodes 2k-1 and 2k), and display ticks counted within a session
MaxSessions == 3
MaxTicks == 2

Contexts == 1..MaxContexts
Streams == 1..MaxStreams
FrameIds == 1..MaxFrameIds
Nodes == 1..MaxNodes

VARIABLES
    activeAudioContexts, activeMediaStreams, activeAnimationFrames, activeAudioNodes,
    \* the browser's side of the resources
    ctxState,      \* state of every AudioContext: "running" or "closed"
    closing,       \* contexts whose close(), awaited by cleanupAudioContext, is unsettled
    liveStreams,   \* captured streams whose tracks have not been stopped
    \* observation of the registry from outside
    rcOwed,        \* per kind, the resources tracked and not released through the registry since
    rcLast,        \* the most recent registry call
    rcRaised,      \* a registry call raised to its caller
    rcLog,         \* what the last cleanupAll() released, batch by batch
    rcAll          \* the progress of cleanupAll()

rcVars == <<activeAudioContexts, activeMediaStreams, activeAnimationFrames, activeAudioNodes,
            ctxState, closing, liveStreams, rcOwed, rcLast, rcRaised, rcLog, rcAll>>

NoResources == [audioContexts |-> {}, mediaStreams |-> {}, animationFrames |-> {}, audioNodes |-> {}]

InitRC ==
    /\ activeAudioContexts = {}
    /\ activeMediaStreams = {}
    /\ activeAnimationFrames = {}
    /\ activeAudioNodes = {}
    /\ ctxState = [c \in Contexts |-> "running"]
    /\ closing = {}
    /\ liveStreams = {}
    /\ rcOwed = NoResources
    /\ rcLast = [op |-> "none", id |-> 0, released |-> FALSE, again |-> FALSE]
    /\ rcRaised = FALSE
    /\ rcLog = <<>>
    /\ rcAll = [phase |-> "idle", tracked |-> NoResources, waiting |-> {}]

----------------------------------------------------------------------------
(* The listening session of the component: state *)

VARIABLES
    isListening,       \* the React state
    lsCall,            \* position of the startListening() call in flight: "none" or "acquiring"
    lsClosure,         \* the value of isListening that the call in flight, and its analyzeAudio, closed over
    mediaStreamRef,    \* 0 is null
    animationFrameId,  \* 0 is null
    lsScheduled,       \* analyzeAudio is waiting for the next display tick
    lsSessions,        \* streams captured so far
    \* observation of the session from outside
    lsFed,             \* frames fed to process() since the session's detector was built
    lsTicks            \* display ticks since the session became active

lsVars == <<isListening, lsCall, lsClosure, mediaStreamRef, animationFrameId,
            lsScheduled, lsSessions, lsFed, lsTicks>>

InitLS ==
    /\ isListening = FALSE
    /\ lsCall = "none"
    /\ lsClosure = FALSE
    /\ mediaStreamRef = 0
    /\ animationFrameId = 0
    /\ lsScheduled = FALSE
    /\ lsSessions = 0
    /\ lsFed = 0
    /\ lsTicks = 0

----------------------------------------------------------------------------
(* calculateZCR called on its own: state *)

\* longest frame handed to calculateZCR
MaxFrameLen == 4

SampleValues == {-1, 0, 1}

\* every frame of at most MaxFrameLen samples
AllFrames == UNION {[1..n -> SampleValues] : n \in 0..MaxFrameLen}

VARIABLES
    zcrCalled,     \* calculateZCR has been called
    zcrSamples,    \* the frame of the last call
    zcrResult,     \* what calculateZCR returned for it
    zcrLegacy,     \* what calculateZCR of odia-voiceai.tsx returned for it
    zcrFrame       \* the zero-crossing rate process() uses for it

zcrVars == <<zcrCalled, zcrSamples, zcrResult, zcrLegacy, zcrFrame>>

InitZCR ==
    /\ zcrCalled = FALSE
    /\ zcrSamples = <<>>
    /\ zcrResult = Zero
    /\ zcrLegacy = Zero
    /\ zcrFrame = Zero

----------------------------------------------------------------------------
(* The whole state *)

----------------------------------------------------------------------------
(* Callback pairing of the detector: state *)

\* largest number of calibration frames after which a malformed frame arrives
MaxMalformedAt == 1

VARIABLES
    pairing        \* "closed": every onSpeechStart was followed by an
                   \* onSpeechEnd; "open": the last one was not yet;
                   \* "broken": two starts or two ends in a row

InitPair == pairing = "closed"

----------------------------------------------------------------------------
(* SpeechInputValidator: state *)

\* longest text, in tokens
MaxTextLen == 2

\* A text is a sequence of tokens: a harmless letter and one occurrence of
\* what each dangerous pattern matches.
Tokens == {"a", "<script></script>", "javascript:", "onload=", "data:text/html"}

\* characters of a token
TokLen(t) ==
    CASE t = "a" -> 1
      [] t = "<script></script>" -> 17
      [] t = "javascript:" -> 11
      [] t = "onload=" -> 7
      [] t = "data:text/html" -> 14

Texts == UNION {[1..n -> Tokens] : n \in 0..MaxTextLen}

\* what each of the four patterns matches
DANGEROUS_PATTERNS ==
    <<"<script></script>", "javascript:", "onload=", "data:text/html">>

MIN_SPEECH_LENGTH == 2
MAX_SPEECH_LENGTH == 500

VARIABLES
    lastIndex,     \* lastIndex of each pattern: the patterns are global (/g)
                   \* and static, so they live across calls
    valText,       \* the text of the most recent validateSpeechInput()
    valResult      \* and what it returned

valVars == <<lastIndex, valText, valResult>>

NoResult == [isValid |-> FALSE, error |-> "not called", sanitized |-> <<>>]

InitVal ==
    /\ lastIndex = [k \in 1..Len(DANGEROUS_PATTERNS) |-> 0]
    /\ valText = <<>>
    /\ valResult = NoResult

----------------------------------------------------------------------------
(* AudioPlayer: state *)

\* calls of playBase64Audio
MaxPlays == 3

VARIABLES
    currentSource, \* index in sources of this.currentSource, 0 for null
    playerPlaying, \* this.isPlaying of the player
    sources,       \* every AudioBufferSourceNode started so far: "playing",
                   \* "stopped" or "ended", and whether its ended event is
                   \* queued and its onended handler has not run yet
    decoding,      \* calls of playBase64Audio awaiting decodeAudioData
    plays,         \* calls of playBase64Audio so far
    apLast         \* the most recent step of the player

apVars == <<currentSource, playerPlaying, sources, decoding, plays, apLast>>

InitAP ==
    /\ currentSource = 0
    /\ playerPlaying = FALSE
    /\ sources = <<>>
    /\ decoding = 0
    /\ plays = 0
    /\ apLast = [op |-> "none", id |-> 0]

----------------------------------------------------------------------------
(* VoiceAIErrorHandler: state *)

\* calls of handleError
MaxCalls == 5

maxRetries == 3
enableAutoRecovery == TRUE

\* the counters of one retry key (one error type in one context)
VARIABLES
    retryCount,    \* retryCount.get(retryKey), 0 when the key is absent
    inFlight,      \* calls of handleError awaiting their recovery strategy
    handled,       \* calls of handleError so far
    failRun,       \* attempts that ended without success since the last
                   \* success or the last call that gave up
    ehLast         \* the most recent step of the handler

ehVars == <<retryCount, inFlight, handled, failRun, ehLast>>

InitEH ==
    /\ retryCount = 0
    /\ inFlight = 0
    /\ handled = 0
    /\ failRun = 0
    /\ ehLast = [op |-> "none", returned |-> FALSE]

utilVars == <<pairing, valVars, apVars, ehVars>>

InitUtil == InitPair /\ InitVal /\ InitAP /\ InitEH

----------------------------------------------------------------------------

vars == <<vadVars, vadObs, abmVars, rcVars, lsVars, zcrVars, utilVars>>

Init == InitVAD /\ InitABM /\ InitRC /\ InitLS /\ InitZCR /\ InitUtil

----------------------------------------------------------------------------
(* Specification of the detector with a steady calibration window *)

\* while calibrating, the room stays at one noise level
SteadyInput(volume) ==
    \/ isCalibrated /\ volume \in Volumes
    \/ /\ ~isCalibrated
       /\ volume \in NoiseLevels
       /\ submittedLog # <<>> => volume = submittedLog[1]

VADProcess ==
    /\ \E volume \in Volumes \cup NoiseLevels, samples \in Frames :
          SteadyInput(volume) /\ Process(volume, samples)
    /\ UNCHANGED <<abmVars, rcVars, lsVars, zcrVars, utilVars>>

VADCalibrate ==
    /\ \E volume \in Volumes \cup NoiseLevels :
          SteadyInput(volume) /\ Calibrate(volume)
    /\ UNCHANGED <<abmVars, rcVars, lsVars, zcrVars, utilVars>>

VADReset == Reset /\ UNCHANGED <<abmVars, rcVars, lsVars, zcrVars, utilVars>>

NextVAD == VADProcess \/ VADCalibrate \/ VADReset

SpecVAD == Init /\ [][NextVAD]_vars

----------------------------------------------------------------------------
(* Specification of the calibration phase with a changing noise level *)

CalInput(volume) ==
    /\ volume \in CalVolumes
    /\ Len(submittedLog) <= calibrationTarget
          => Changes(Append(submittedLog, volume)) <= MaxCalibChanges

CalProcess ==
    /\ isCalibrated => Len(energyHistory) < MaxPostCal
    /\ \E volume \in CalVolumes, samples \in Frames :
          CalInput(volume) /\ Process(volume, samples)
    /\ UNCHANGED <<abmVars, rcVars, lsVars, zcrVars, utilVars>>

CalCalibrate ==
    /\ \E volume \in CalVolumes : CalInput(volume) /\ Calibrate(volume)
    /\ UNCHANGED <<abmVars, rcVars, lsVars, zcrVars, utilVars>>

CalReset == Reset /\ UNCHANGED <<abmVars, rcVars, lsVars, zcrVars, utilVars>>

NextCal == CalProcess \/ CalCalibrate \/ CalReset

SpecCal == Init /\ [][NextCal]_vars

----------------------------------------------------------------------------
(* Properties of AdvancedVAD *)

\* C1: from a fresh calibrated detector (Silence, empty history), a run of
\* frames of one constant energy above energyThreshold with a ZCR above 0.3
\* fires onSpeechStart exactly once, on the 3rd frame of the run: not on the
\* 1st or 2nd, and not again on the 4th and later ones.
C1_SpeechStartOnThirdFrame ==
    run >= 1 => Fired(events, "onSpeechStart") = (IF run = 3 THEN 1 ELSE 0)

C1_Witness ==
    /\ run = 3
    /\ isSpeaking
    /\ Fired(events, "onSpeechStart") = 1

\* C2: counted from state Speech, the 9th frame in a row that is classified
\* not speech-like fires onSpeechEnd exactly once; shorter runs fire nothing
\* and leave the state Speech, also when a speech-like frame interrupts them.
C2_SpeechEndOnNinthFrame ==
    /\ silRun >= 0 => Fired(events, "onSpeechEnd") = (IF silRun = 9 THEN 1 ELSE 0)
    /\ silRun \in 0..8 => isSpeaking
    /\ silRun >= 9 => ~isSpeaking

C2_Witness ==
    /\ silRun = 9
    /\ ~isSpeaking
    /\ Fired(events, "onSpeechEnd") = 1

\* C3: a frame given to process() before calibration has completed fires no
\* callback and leaves the state Silence, both counters 0 and both history
\* buffers empty.
C3_NoEffectBeforeCalibration ==
    (~isCalibrated \/ (lastCall.op = "process" /\ ~lastCall.calibrated))
       => /\ events = <<>>
          /\ ~isSpeaking
          /\ speechFrames = 0
          /\ silenceFrames = 0
          /\ energyHistory = <<>>
          /\ zcrHistory = <<>>

C3_Witness ==
    /\ lastCall.op = "process"
    /\ ~lastCall.calibrated
    /\ Len(calibrationSamples) = calibrationTarget

\* C4: once calibrated, backgroundNoise is the arithmetic mean of exactly the
\* first 30 submitted energies and energyThreshold is backgroundNoise * 3.
C4_ThresholdFromFirstThirty ==
    isCalibrated =>
       /\ Len(submittedLog) > calibrationTarget
       /\ backgroundNoise = Mean(SubSeq(submittedLog, 1, calibrationTarget))
       /\ energyThreshold = JsMul(backgroundNoise, [n |-> 3, d |-> 1])

C4_Witness ==
    /\ isCalibrated
    /\ submittedLog[calibrationTarget + 1] # submittedLog[calibrationTarget]
    /\ JsGt(backgroundNoise, Zero)

\* C5: after 30 submitted energies the detector is calibrated.
C5_CalibratedAfterThirty ==
    Len(submittedLog) >= calibrationTarget => isCalibrated

\* C6: once isCalibrated is true, isCalibrated, backgroundNoise,
\* energyThreshold and calibrationSamples never change again, whatever
\* process(), calibrate() and reset() calls follow.
C6_CalibrationFrozen ==
    [][isCalibrated => /\ isCalibrated'
                       /\ UNCHANGED <<backgroundNoise, energyThreshold,
                                      calibrationSamples>>]_vars

C6_Witness ==
    /\ isCalibrated
    /\ lastCall.op = "reset"
    /\ lastCall.calibrated

\* C7: every frame processed after calibration fires onVolumeChange with the
\* energy of the frame and then onConfidence with the confidence, once each,
\* before any onSpeechStart or onSpeechEnd of that frame.
C7_TelemetryOnEveryFrame ==
    (lastCall.op = "process" /\ lastCall.calibrated) =>
       /\ Len(events) >= 2
       /\ events[1] = [cb |-> "onVolumeChange", arg |-> lastCall.volume]
       /\ events[2] = [cb |-> "onConfidence", arg |-> speechConfidence]
       /\ \A i \in 3..Len(events) : events[i].cb \in {"onSpeechStart", "onSpeechEnd"}

C7_Witness ==
    /\ lastCall.op = "process"
    /\ lastCall.calibrated
    /\ Len(events) = 3
    /\ events[3].cb = "onSpeechEnd"

\* a step in which process() classified a frame
Classifies ==
    /\ lastCall'.op = "process"
    /\ lastCall'.calibrated
    /\ <<speechFrames, silenceFrames>>' # <<speechFrames, silenceFrames>>

\* C20: at most one of speechFrames and silenceFrames is non-zero in every
\* reachable state: each classified frame adds 1 to exactly one of them and
\* sets the other to 0, so silenceFrames is 0 after a change from silence to
\* speech and speechFrames is 0 after a change from speech to silence.
C20_OneCounterAtATime ==
    /\ speechFrames = 0 \/ silenceFrames = 0
    /\ [][/\ speechFrames' = 0 \/ silenceFrames' = 0
          /\ Classifies =>
                \/ speechFrames' = speechFrames + 1 /\ silenceFrames' = 0
                \/ silenceFrames' = silenceFrames + 1 /\ speechFrames' = 0
          /\ (~isSpeaking /\ isSpeaking') => silenceFrames' = 0
          /\ (isSpeaking /\ ~isSpeaking') => speechFrames' = 0]_vars

C20_Witness ==
    /\ lastCall.op = "process"
    /\ lastCall.calibrated
    /\ Fired(events, "onSpeechEnd") = 1
    /\ ~isSpeaking
    /\ speechFrames = 0
    /\ silenceFrames = 9

----------------------------------------------------------------------------
(* AudioBufferManager: operations *)

\* An Audio element: the blob it plays, its playback status ("pending" while
\* the promise of play() is unsettled, then "playing", and "ended", "paused"
\* or "failed"), the callbacks the browser has queued for it and not yet
\* run, how often its object URL was revoked, and whether stop() paused it.
NewAudio(blob) ==
    [blob |-> blob, status |-> "pending", cbs |-> {}, revoked |-> 0, stopped |-> FALSE]

Audible(a) == a.status \in {"pending", "playing"}

Playing == {i \in 1..Len(audios) : Audible(audios[i])}

\* playNext() on queue q and elements au
playNext(q, au) ==
    IF q = <<>>
    THEN /\ isPlaying' = FALSE
         /\ queue' = q
         /\ audios' = au
         /\ UNCHANGED <<currentAudio, started>>
    ELSE /\ isPlaying' = TRUE
         /\ queue' = Tail(q)
         /\ audios' = Append(au, NewAudio(Head(q)))
         /\ currentAudio' = Len(au) + 1
         /\ started' = Append(started, Head(q))

\* variant: add() starts playback without looking at isPlaying
AddAlways(blob) ==
    /\ Len(enqueued) < MaxItems
    /\ blob = Len(enqueued) + 1
    /\ enqueued' = Append(enqueued, blob)
    /\ playNext(Append(queue, blob), audios)
    /\ abmLast' = [op |-> "add", el |-> 0]
    /\ UNCHANGED natural

Add(blob) ==
    /\ Len(enqueued) < MaxItems
    /\ blob = Len(enqueued) + 1
    /\ enqueued' = Append(enqueued, blob)
    /\ IF ~isPlaying
       THEN playNext(Append(queue, blob), audios)
       ELSE /\ queue' = Append(queue, blob)
            /\ UNCHANGED <<isPlaying, currentAudio, audios, started>>
    /\ abmLast' = [op |-> "add", el |-> 0]
    /\ UNCHANGED natural

\* currentAudio.pause(): a pending play() is rejected, playback halts
Paused(a) ==
    IF a.status = "pending"
    THEN [a EXCEPT !.status = "paused", !.cbs = @ \cup {"rejected"}, !.stopped = TRUE]
    ELSE IF a.status = "playing"
    THEN [a EXCEPT !.status = "paused", !.stopped = TRUE]
    ELSE a

Stop ==
    /\ IF currentAudio # 0
       THEN /\ audios' = [audios EXCEPT ![currentAudio] = Paused(@)]
            /\ currentAudio' = 0
       ELSE UNCHANGED <<audios, currentAudio>>
    /\ queue' = <<>>
    /\ isPlaying' = FALSE
    /\ natural' = FALSE
    /\ abmLast' = [op |-> "stop", el |-> currentAudio]
    /\ UNCHANGED <<enqueued, started>>

Clear == Stop

\* the browser settles the promise of play(): playback has begun
PlayResolves(i) ==
    /\ i \in 1..Len(audios)
    /\ audios[i].status = "pending"
    /\ audios' = [audios EXCEPT ![i].status = "playing"]
    /\ abmLast' = [op |-> "resolved", el |-> i]
    /\ UNCHANGED <<queue, isPlaying, currentAudio, enqueued, started, natural>>

\* playback reaches the end of the clip: the ended event is queued
MediaEnds(i) ==
    /\ i \in 1..Len(audios)
    /\ audios[i].status = "playing"
    /\ audios' = [audios EXCEPT ![i].status = "ended", ![i].cbs = @ \cup {"ended"}]
    /\ abmLast' = [op |-> "ends", el |-> i]
    /\ UNCHANGED <<queue, isPlaying, currentAudio, enqueued, started, natural>>

\* the clip cannot be loaded or decoded: the error event is queued, and a
\* still pending play() is rejected as well
MediaFails(i) ==
    /\ i \in 1..Len(audios)
    /\ Audible(audios[i])
    /\ audios' = [audios EXCEPT
          ![i].status = "failed",
          ![i].cbs = @ \cup (IF audios[i].status = "pending"
                             THEN {"error", "rejected"} ELSE {"error"})]
    /\ natural' = FALSE
    /\ abmLast' = [op |-> "fails", el |-> i]
    /\ UNCHANGED <<queue, isPlaying, currentAudio, enqueued, started>>

\* the browser refuses to start playback: only play() is rejected
PlayRefused(i) ==
    /\ i \in 1..Len(audios)
    /\ audios[i].status = "pending"
    /\ audios' = [audios EXCEPT ![i].status = "failed", ![i].cbs = @ \cup {"rejected"}]
    /\ natural' = FALSE
    /\ abmLast' = [op |-> "refused", el |-> i]
    /\ UNCHANGED <<queue, isPlaying, currentAudio, enqueued, started>>

\* currentAudio.onended
OnEnded(i) ==
    /\ i \in 1..Len(audios)
    /\ "ended" \in audios[i].cbs
    /\ playNext(queue, [audios EXCEPT ![i].cbs = @ \ {"ended"}, ![i].revoked = @ + 1])
    /\ abmLast' = [op |-> "onended", el |-> i]
    /\ UNCHANGED <<enqueued, natural>>

\* variant: onerror releases the URL and leaves the queue where it is
OnErrorStalls(i) ==
    /\ i \in 1..Len(audios)
    /\ "error" \in audios[i].cbs
    /\ audios' = [audios EXCEPT ![i].cbs = @ \ {"error"}, ![i].revoked = @ + 1]
    /\ abmLast' = [op |-> "onerror", el |-> i]
    /\ UNCHANGED <<queue, isPlaying, currentAudio, started, enqueued, natural>>

\* currentAudio.onerror
OnError(i) ==
    /\ i \in 1..Len(audios)
    /\ "error" \in audios[i].cbs
    /\ playNext(queue, [audios EXCEPT ![i].cbs = @ \ {"error"}, ![i].revoked = @ + 1])
    /\ abmLast' = [op |-> "onerror", el |-> i]
    /\ UNCHANGED <<enqueued, natural>>

\* the catch handler of currentAudio.play()
OnPlayRejected(i) ==
    /\ i \in 1..Len(audios)
    /\ "rejected" \in audios[i].cbs
    /\ playNext(queue, [audios EXCEPT ![i].cbs = @ \ {"rejected"}])
    /\ abmLast' = [op |-> "onrejected", el |-> i]
    /\ UNCHANGED <<enqueued, natural>>

----------------------------------------------------------------------------
(* Specification of the playback queue *)

ABMAdd == (\E blob \in 1..MaxItems : Add(blob)) /\ UNCHANGED <<vadVars, vadObs, rcVars, lsVars, zcrVars, utilVars>>
ABMStop == Stop /\ UNCHANGED <<vadVars, vadObs, rcVars, lsVars, zcrVars, utilVars>>
ABMClear == Clear /\ UNCHANGED <<vadVars, vadObs, rcVars, lsVars, zcrVars, utilVars>>
ABMPlayResolves == (\E i \in 1..MaxItems : PlayResolves(i)) /\ UNCHANGED <<vadVars, vadObs, rcVars, lsVars, zcrVars, utilVars>>
ABMMediaEnds == (\E i \in 1..MaxItems : MediaEnds(i)) /\ UNCHANGED <<vadVars, vadObs, rcVars, lsVars, zcrVars, utilVars>>
ABMMediaFails == (\E i \in 1..MaxItems : MediaFails(i)) /\ UNCHANGED <<vadVars, vadObs, rcVars, lsVars, zcrVars, utilVars>>
ABMPlayRefused == (\E i \in 1..MaxItems : PlayRefused(i)) /\ UNCHANGED <<vadVars, vadObs, rcVars, lsVars, zcrVars, utilVars>>
ABMOnEnded == (\E i \in 1..MaxItems : OnEnded(i)) /\ UNCHANGED <<vadVars, vadObs, rcVars, lsVars, zcrVars, utilVars>>
ABMOnError == (\E i \in 1..MaxItems : OnError(i)) /\ UNCHANGED <<vadVars, vadObs, rcVars, lsVars, zcrVars, utilVars>>
ABMOnPlayRejected == (\E i \in 1..MaxItems : OnPlayRejected(i)) /\ UNCHANGED <<vadVars, vadObs, rcVars, lsVars, zcrVars, utilVars>>

NextABM ==
    \/ ABMAdd \/ ABMStop \/ ABMClear
    \/ ABMPlayResolves \/ ABMMediaEnds \/ ABMMediaFails \/ ABMPlayRefused
    \/ ABMOnEnded \/ ABMOnError \/ ABMOnPlayRejected

SpecABM == Init /\ [][NextABM]_vars

----------------------------------------------------------------------------
(* Properties of AudioBufferManager *)

\* C8: at most one item is playing at any time.
C8_AtMostOnePlaying == Cardinality(Playing) <= 1

Callbacks == {"onended", "onerror", "onrejected"}

\* C10: a callback that arrives for an item after stop() has stopped it
\* starts no playback and changes no queue state.
C10_StoppedItemIgnored ==
    [][(abmLast'.op \in Callbacks /\ audios[abmLast'.el].stopped)
          => UNCHANGED <<queue, isPlaying, currentAudio, started>>]_vars

Completed(a) == a.status = "ended" /\ a.cbs = {}

IsPrefix(s, t) == Len(s) <= Len(t) /\ SubSeq(t, 1, Len(s)) = s

\* C9: while every playback completes naturally (no stop(), no failure), an
\* add() on an idle queue starts its item at once, items are started in
\* enqueue order, one at a time, each only after the one before it has
\* completed, and when the last one has completed the queue is idle and empty
\* with exactly one play per item.
C9_SequentialFifoPlayback ==
    natural =>
       /\ IsPrefix(started, enqueued)
       /\ Len(audios) = Len(started)
       /\ \A i \in 1..Len(audios) : audios[i].blob = started[i]
       /\ \A i \in 1..(Len(audios) - 1) : Completed(audios[i])
       /\ queue = SubSeq(enqueued, Len(started) + 1, Len(enqueued))
       /\ enqueued # <<>> => started # <<>>
       /\ isPlaying <=> (audios # <<>> /\ ~Completed(audios[Len(audios)]))
       /\ ~isPlaying => queue = <<>> /\ started = enqueued

C9_Witness ==
    /\ natural
    /\ Len(enqueued) = 3
    /\ started = enqueued
    /\ \A i \in 1..3 : Completed(audios[i])
    /\ ~isPlaying
    /\ queue = <<>>

----------------------------------------------------------------------------
(* The playback queue when stop() is never called and the browser settles
   every playback it was asked to start *)

\* the browser settles a playback: play() resolves or is refused, the clip
\* ends or fails
ABMSettles == ABMPlayResolves \/ ABMMediaEnds \/ ABMMediaFails \/ ABMPlayRefused

\* the event loop runs a queued onended, onerror or catch handler
ABMDispatch == ABMOnEnded \/ ABMOnError \/ ABMOnPlayRejected

NextABMDrain == ABMAdd \/ ABMSettles \/ ABMDispatch

SpecABMDrain ==
    Init /\ [][NextABMDrain]_vars /\ WF_vars(ABMSettles) /\ WF_vars(ABMDispatch)

\* C11: when stop() is not called and every started playback ends, errors
\* or is rejected, every blob handed to add() is eventually started, and the
\* manager eventually stays idle with an empty queue; a failed playback
\* only advances the queue.
C11_AlwaysDrains ==
    /\ \A k \in 1..MaxItems : (Len(enqueued) >= k) ~> (Len(started) >= k)
    /\ <>[](queue = <<>> /\ ~isPlaying /\ started = enqueued)

C11_Witness ==
    /\ Len(enqueued) = 2
    /\ started = enqueued
    /\ audios[1].status = "failed"
    /\ audios[1].revoked = 1
    /\ audios[2].status = "ended"
    /\ \A i \in 1..2 : audios[i].cbs = {}
    /\ queue = <<>>
    /\ ~isPlaying

\* C12: the object URL of every Audio element is revoked exactly once when
\* its item completes, fails or is stopped: an element that is no longer
\* playing and has no handler left to run has had its URL revoked once.
C12_UrlRevokedOnce ==
    \A i \in 1..Len(audios) :
       /\ audios[i].revoked <= 1
       /\ (~Audible(audios[i]) /\ audios[i].cbs = {}) => audios[i].revoked = 1

----------------------------------------------------------------------------
(* ResourceCleanup: operations *)

\* a registry call or browser event on resource id: whether it took id out of
\* the registry, and whether the step before it had done so already
RCCall(op, id, released) ==
    [op |-> op, id |-> id, released |-> released,
     again |-> rcLast.id = id /\ rcLast.released]

getResourceStats ==
    [audioContexts |-> Cardinality(activeAudioContexts),
     mediaStreams |-> Cardinality(activeMediaStreams),
     animationFrames |-> Cardinality(activeAnimationFrames),
     audioNodes |-> Cardinality(activeAudioNodes)]

checkForLeaks ==
    \/ getResourceStats.audioContexts > 0
    \/ getResourceStats.mediaStreams > 0
    \/ getResourceStats.animationFrames > 0
    \/ getResourceStats.audioNodes > 0

trackAudioContext(context) ==
    /\ activeAudioContexts' = activeAudioContexts \cup {context}
    /\ rcOwed' = [rcOwed EXCEPT !.audioContexts = @ \cup {context}]
    /\ rcLast' = RCCall("trackAudioContext", context, FALSE)
    /\ UNCHANGED <<activeMediaStreams, activeAnimationFrames, activeAudioNodes,
                   ctxState, closing, liveStreams, rcRaised, rcLog, rcAll>>

trackMediaStream(stream) ==
    /\ activeMediaStreams' = activeMediaStreams \cup {stream}
    /\ rcOwed' = [rcOwed EXCEPT !.mediaStreams = @ \cup {stream}]
    /\ rcLast' = RCCall("trackMediaStream", stream, FALSE)
    /\ UNCHANGED <<activeAudioContexts, activeAnimationFrames, activeAudioNodes,
                   ctxState, closing, liveStreams, rcRaised, rcLog, rcAll>>

\* getUserMedia resolves with a new stream, its tracks running
StreamCaptured(stream) ==
    /\ stream \notin liveStreams
    /\ stream \notin activeMediaStreams
    /\ liveStreams' = liveStreams \cup {stream}
    /\ rcLast' = RCCall("getUserMedia", stream, FALSE)
    /\ UNCHANGED <<activeAudioContexts, activeMediaStreams, activeAnimationFrames,
                   activeAudioNodes, ctxState, closing, rcOwed, rcRaised, rcLog, rcAll>>

trackAnimationFrame(id) ==
    /\ activeAnimationFrames' = activeAnimationFrames \cup {id}
    /\ rcOwed' = [rcOwed EXCEPT !.animationFrames = @ \cup {id}]
    /\ rcLast' = RCCall("trackAnimationFrame", id, FALSE)
    /\ UNCHANGED <<activeAudioContexts, activeMediaStreams, activeAudioNodes,
                   ctxState, closing, liveStreams, rcRaised, rcLog, rcAll>>

trackAudioNode(node) ==
    /\ activeAudioNodes' = activeAudioNodes \cup {node}
    /\ rcOwed' = [rcOwed EXCEPT !.audioNodes = @ \cup {node}]
    /\ rcLast' = RCCall("trackAudioNode", node, FALSE)
    /\ UNCHANGED <<activeAudioContexts, activeMediaStreams, activeAnimationFrames,
                   ctxState, closing, liveStreams, rcRaised, rcLog, rcAll>>

\* cleanupAudioContext up to its await: a null or closed context is left
\* alone, close() is called on any other
cleanupAudioContext(context) ==
    /\ closing' = IF context # 0 /\ ctxState[context] # "closed"
                  THEN closing \cup {context} ELSE closing
    /\ rcLast' = RCCall("cleanupAudioContext", context, FALSE)
    /\ UNCHANGED <<activeAudioContexts, activeMediaStreams, activeAnimationFrames,
                   activeAudioNodes, ctxState, liveStreams, rcOwed, rcRaised, rcLog, rcAll>>

\* close() resolves: cleanupAudioContext resumes and deletes the context
CloseResolves(context) ==
    /\ context \in closing
    /\ closing' = closing \ {context}
    /\ ctxState' = [ctxState EXCEPT ![context] = "closed"]
    /\ activeAudioContexts' = activeAudioContexts \ {context}
    /\ rcOwed' = [rcOwed EXCEPT !.audioContexts = @ \ {context}]
    /\ rcAll' = [rcAll EXCEPT !.waiting = @ \ {context}]
    /\ rcLast' = RCCall("closeResolved", context, context \in activeAudioContexts)
    /\ UNCHANGED <<activeMediaStreams, activeAnimationFrames, activeAudioNodes,
                   liveStreams, rcRaised, rcLog>>

\* close() rejects: cleanupAudioContext resumes in its catch block
CloseRejects(context) ==
    /\ context \in closing
    /\ closing' = closing \ {context}
    /\ rcAll' = [rcAll EXCEPT !.waiting = @ \ {context}]
    /\ rcLast' = RCCall("closeRejected", context, FALSE)
    /\ UNCHANGED <<activeAudioContexts, activeMediaStreams, activeAnimationFrames,
                   activeAudioNodes, ctxState, liveStreams, rcOwed, rcRaised, rcLog>>

\* the owner of a context closes it itself, past the registry
ContextClosedElsewhere(context) ==
    /\ ctxState[context] = "running"
    /\ ctxState' = [ctxState EXCEPT ![context] = "closed"]
    /\ rcLast' = RCCall("closedElsewhere", context, FALSE)
    /\ UNCHANGED <<activeAudioContexts, activeMediaStreams, activeAnimationFrames,
                   activeAudioNodes, closing, liveStreams, rcOwed, rcRaised, rcLog, rcAll>>

\* variant: a throwing track.stop() escapes to the caller
cleanupMediaStreamUnguarded(stream, throws) ==
    /\ IF stream = 0 \/ throws
       THEN UNCHANGED <<activeMediaStreams, liveStreams, rcOwed>>
       ELSE /\ liveStreams' = liveStreams \ {stream}
            /\ activeMediaStreams' = activeMediaStreams \ {stream}
            /\ rcOwed' = [rcOwed EXCEPT !.mediaStreams = @ \ {stream}]
    /\ rcRaised' = (rcRaised \/ (stream # 0 /\ throws))
    /\ rcLast' = RCCall("cleanupMediaStream", stream,
                       stream \in activeMediaStreams /\ ~throws)
    /\ UNCHANGED <<activeAudioContexts, activeAnimationFrames, activeAudioNodes,
                   ctxState, closing, rcLog, rcAll>>

\* cleanupMediaStream: a null stream is left alone; when stopping a track
\* throws, the catch block logs and the stream stays in the set
cleanupMediaStream(stream, throws) ==
    /\ IF stream = 0 \/ throws
       THEN UNCHANGED <<activeMediaStreams, liveStreams, rcOwed>>
       ELSE /\ liveStreams' = liveStreams \ {stream}
            /\ activeMediaStreams' = activeMediaStreams \ {stream}
            /\ rcOwed' = [rcOwed EXCEPT !.mediaStreams = @ \ {stream}]
    /\ rcRaised' = rcRaised
    /\ rcLast' = RCCall("cleanupMediaStream", stream,
                       stream \in activeMediaStreams /\ ~throws)
    /\ UNCHANGED <<activeAudioContexts, activeAnimationFrames, activeAudioNodes,
                   ctxState, closing, rcLog, rcAll>>

\* cleanupAnimationFrame: a null id is left alone; when cancelAnimationFrame
\* throws, the catch block logs and the id stays in the set
cleanupAnimationFrame(id, throws) ==
    /\ IF id = 0 \/ throws
       THEN UNCHANGED <<activeAnimationFrames, rcOwed>>
       ELSE /\ activeAnimationFrames' = activeAnimationFrames \ {id}
            /\ rcOwed' = [rcOwed EXCEPT !.animationFrames = @ \ {id}]
    /\ rcLast' = RCCall("cleanupAnimationFrame", id,
                       id \in activeAnimationFrames /\ ~throws)
    /\ UNCHANGED <<activeAudioContexts, activeMediaStreams, activeAudioNodes,
                   ctxState, closing, liveStreams, rcRaised, rcLog, rcAll>>

Batch(kind, ids) == [kind |-> kind, ids |-> ids]

\* variant: cleanupAll() closes the audio contexts first
cleanupAllContextsFirst(badFrames, badStreams) ==
    /\ rcAll.phase = "idle"
    /\ badFrames \subseteq activeAnimationFrames
    /\ badStreams \subseteq activeMediaStreams
    /\ \E open \in {{c \in activeAudioContexts : ctxState[c] # "closed"}} :
          /\ rcLog' = <<Batch("audioContext", open),
                        Batch("animationFrame", activeAnimationFrames),
                        Batch("audioNode", activeAudioNodes),
                        Batch("mediaStream", activeMediaStreams),
                        Batch("speechSynthesis", {})>>
          /\ closing' = closing \cup open
          /\ rcAll' = [phase |-> "awaiting", tracked |-> rcOwed, waiting |-> open]
    /\ activeAnimationFrames' = badFrames
    /\ activeAudioNodes' = {}
    /\ activeMediaStreams' = badStreams
    /\ liveStreams' = liveStreams \ (activeMediaStreams \ badStreams)
    /\ rcOwed' = [rcOwed EXCEPT !.animationFrames = badFrames, !.audioNodes = {},
                                !.mediaStreams = badStreams]
    /\ rcLast' = RCCall("cleanupAll", 0, FALSE)
    /\ UNCHANGED <<activeAudioContexts, ctxState, rcRaised>>

\* cleanupAll() up to its await. badFrames and badStreams are the tracked
\* resources whose cancelAnimationFrame or track.stop() throws. Each phase
\* works on the whole set of its kind before the next phase begins.
cleanupAll(badFrames, badStreams) ==
    /\ rcAll.phase = "idle"
    /\ badFrames \subseteq activeAnimationFrames
    /\ badStreams \subseteq activeMediaStreams
    /\ \E open \in {{c \in activeAudioContexts : ctxState[c] # "closed"}} :
          /\ rcLog' = <<Batch("animationFrame", activeAnimationFrames),
                        Batch("audioNode", activeAudioNodes),
                        Batch("mediaStream", activeMediaStreams),
                        Batch("speechSynthesis", {}),
                        Batch("audioContext", open)>>
          /\ closing' = closing \cup open
          /\ rcAll' = [phase |-> "awaiting", tracked |-> rcOwed, waiting |-> open]
    /\ activeAnimationFrames' = badFrames
    /\ activeAudioNodes' = {}
    /\ activeMediaStreams' = badStreams
    /\ liveStreams' = liveStreams \ (activeMediaStreams \ badStreams)
    /\ rcOwed' = [rcOwed EXCEPT !.animationFrames = badFrames, !.audioNodes = {},
                                !.mediaStreams = badStreams]
    /\ rcLast' = RCCall("cleanupAll", 0, FALSE)
    /\ UNCHANGED <<activeAudioContexts, ctxState, rcRaised>>

\* Promise.allSettled resolves: cleanupAll() resolves
cleanupAllResolves ==
    /\ rcAll.phase = "awaiting"
    /\ rcAll.waiting = {}
    /\ rcAll' = [rcAll EXCEPT !.phase = "done"]
    /\ rcLast' = RCCall("cleanupAllResolved", 0, FALSE)
    /\ UNCHANGED <<activeAudioContexts, activeMediaStreams, activeAnimationFrames,
                   activeAudioNodes, ctxState, closing, liveStreams, rcOwed, rcRaised, rcLog>>

----------------------------------------------------------------------------
(* Specification of the registry: clients track and release resources until
   the component unmounts and calls cleanupAll() *)

RCRest == <<vadVars, vadObs, abmVars, lsVars, zcrVars, utilVars>>

Mounted == rcAll.phase = "idle"

RCTrackAudioContext ==
    Mounted /\ (\E c \in Contexts : trackAudioContext(c)) /\ UNCHANGED RCRest
RCTrackMediaStream ==
    Mounted /\ (\E s \in Streams : trackMediaStream(s)) /\ UNCHANGED RCRest
RCStreamCaptured ==
    Mounted /\ (\E s \in Streams : StreamCaptured(s)) /\ UNCHANGED RCRest
RCTrackAnimationFrame ==
    Mounted /\ (\E f \in FrameIds : trackAnimationFrame(f)) /\ UNCHANGED RCRest
RCTrackAudioNode ==
    Mounted /\ (\E n \in Nodes : trackAudioNode(n)) /\ UNCHANGED RCRest
RCCleanupAudioContext ==
    Mounted /\ (\E c \in Contexts \cup {0} : cleanupAudioContext(c)) /\ UNCHANGED RCRest
RCCleanupMediaStream ==
    Mounted /\ (\E s \in Streams \cup {0}, throws \in BOOLEAN : cleanupMediaStream(s, throws))
    /\ UNCHANGED RCRest
RCCleanupAnimationFrame ==
    Mounted /\ (\E f \in FrameIds \cup {0}, throws \in BOOLEAN : cleanupAnimationFrame(f, throws))
    /\ UNCHANGED RCRest
RCCloseResolves == (\E c \in Contexts : CloseResolves(c)) /\ UNCHANGED RCRest
RCCloseRejects == (\E c \in Contexts : CloseRejects(c)) /\ UNCHANGED RCRest
RCContextClosedElsewhere ==
    (\E c \in Contexts : ContextClosedElsewhere(c)) /\ UNCHANGED RCRest
RCCleanupAll ==
    (\E badFrames \in SUBSET FrameIds, badStreams \in SUBSET Streams :
        cleanupAll(badFrames, badStreams))
    /\ UNCHANGED RCRest
RCCleanupAllResolves == cleanupAllResolves /\ UNCHANGED RCRest

NextRC ==
    \/ RCStreamCaptured
    \/ RCTrackAudioContext \/ RCTrackMediaStream \/ RCTrackAnimationFrame \/ RCTrackAudioNode
    \/ RCCleanupAudioContext \/ RCCleanupMediaStream \/ RCCleanupAnimationFrame
    \/ RCCloseResolves \/ RCCloseRejects \/ RCContextClosedElsewhere
    \/ RCCleanupAll \/ RCCleanupAllResolves

SpecRC == Init /\ [][NextRC]_vars

----------------------------------------------------------------------------
(* Properties of ResourceCleanup *)

C14_NothingLeftTracked ==
    rcAll.phase = "done" =>
       /\ ~checkForLeaks
       /\ activeAudioContexts \cap rcAll.tracked.audioContexts = {}
       /\ activeMediaStreams \cap rcAll.tracked.mediaStreams = {}
       /\ activeAnimationFrames \cap rcAll.tracked.animationFrames = {}
       /\ activeAudioNodes \cap rcAll.tracked.audioNodes = {}
       /\ ~rcRaised

ReleaseOrder == <<"animationFrame", "audioNode", "mediaStream", "speechSynthesis", "audioContext">>

Rank(kind) == CHOOSE r \in 1..Len(ReleaseOrder) : ReleaseOrder[r] = kind

\* C15: cleanupAll() releases by kind in a fixed order: every tracked
\* animation frame is cancelled before any audio node is disconnected, every
\* node before any media stream is stopped, every stream before speech
\* synthesis is cancelled, and audio contexts are closed last.
C15_ReleaseOrder ==
    /\ \A i, j \in 1..Len(rcLog) : i < j => Rank(rcLog[i].kind) < Rank(rcLog[j].kind)
    /\ rcAll.phase # "idle" =>
          /\ Len(rcLog) = Len(ReleaseOrder)
          /\ rcLog[Rank("animationFrame")].ids = rcAll.tracked.animationFrames
          /\ rcLog[Rank("audioNode")].ids = rcAll.tracked.audioNodes
          /\ rcLog[Rank("mediaStream")].ids = rcAll.tracked.mediaStreams
          /\ rcLog[Rank("audioContext")].ids \subseteq rcAll.tracked.audioContexts

C15_Witness ==
    /\ rcAll.phase = "done"
    /\ rcLog[1] = Batch("animationFrame", {1})
    /\ rcLog[2] = Batch("audioNode", {1})
    /\ rcLog[3] = Batch("mediaStream", {1})
    /\ rcLog[5] = Batch("audioContext", {1})
    /\ ~checkForLeaks

----------------------------------------------------------------------------
(* The listening session: operations *)

\* new AdvancedVAD(...) followed by the first process(volume, samples): the
\* new detector is uncalibrated, so the frame only feeds the calibrator
FirstFrame(volume) ==
    /\ isSpeaking' = FALSE
    /\ speechFrames' = 0
    /\ silenceFrames' = 0
    /\ energyThreshold' = [n |-> 3, d |-> 200]
    /\ speechConfidence' = Zero
    /\ backgroundNoise' = Zero
    /\ calibrationSamples' = <<volume>>
    /\ isCalibrated' = FALSE
    /\ energyHistory' = <<>>
    /\ zcrHistory' = <<>>
    /\ events' = <<>>
    /\ lastCall' = [op |-> "process", volume |-> volume, calibrated |-> FALSE]
    /\ submittedLog' = <<volume>>
    /\ run' = 0
    /\ silRun' = -1
    /\ recent' = <<>>

\* startListening() up to the await of getUserMedia. The function closes over
\* the isListening of the render that created it.
StartListening ==
    /\ ~isListening
    /\ lsCall = "none"
    /\ lsSessions < MaxSessions
    /\ lsCall' = "acquiring"
    /\ lsClosure' = isListening
    /\ UNCHANGED <<isListening, mediaStreamRef, animationFrameId, lsScheduled,
                   lsSessions, lsFed, lsTicks>>
    /\ UNCHANGED <<vadVars, vadObs, rcVars>>

\* getUserMedia rejects: the catch block reports the error
GetUserMediaRejects ==
    /\ lsCall = "acquiring"
    /\ lsCall' = "none"
    /\ UNCHANGED <<isListening, lsClosure, mediaStreamRef, animationFrameId, lsScheduled,
                   lsSessions, lsFed, lsTicks>>
    /\ UNCHANGED <<vadVars, vadObs, rcVars>>

\* getUserMedia resolves and building the audio graph throws: the catch
\* block reports the error
StartListeningFails ==
    /\ lsCall = "acquiring"
    /\ \E stream \in {lsSessions + 1} :
          /\ lsSessions' = stream
          /\ liveStreams' = liveStreams \cup {stream}
          /\ activeMediaStreams' = activeMediaStreams \cup {stream}
          /\ rcOwed' = [rcOwed EXCEPT !.mediaStreams = @ \cup {stream}]
          /\ rcLast' = RCCall("trackMediaStream", stream, FALSE)
          /\ mediaStreamRef' = stream
    /\ lsCall' = "none"
    /\ UNCHANGED <<isListening, lsClosure, animationFrameId, lsScheduled, lsFed, lsTicks>>
    /\ UNCHANGED <<activeAudioContexts, activeAnimationFrames, activeAudioNodes,
                   ctxState, closing, rcRaised, rcLog, rcAll>>
    /\ UNCHANGED <<vadVars, vadObs>>

\* getUserMedia resolves and startListening() runs to its end: the stream
\* and the two nodes are tracked, a detector is built, analyzeAudio() runs
\* once and asks for another frame when the closed-over isListening is true
StartListeningCompletes(volume) ==
    /\ lsCall = "acquiring"
    /\ \E stream \in {lsSessions + 1} :
          /\ lsSessions' = stream
          /\ liveStreams' = liveStreams \cup {stream}
          /\ activeMediaStreams' = activeMediaStreams \cup {stream}
          /\ activeAudioNodes' = activeAudioNodes \cup {2 * stream - 1, 2 * stream}
          /\ mediaStreamRef' = stream
          /\ IF lsClosure
             THEN /\ animationFrameId' = stream
                  /\ lsScheduled' = TRUE
                  /\ activeAnimationFrames' = activeAnimationFrames \cup {stream}
                  /\ rcOwed' = [rcOwed EXCEPT
                        !.mediaStreams = @ \cup {stream},
                        !.audioNodes = @ \cup {2 * stream - 1, 2 * stream},
                        !.animationFrames = @ \cup {stream}]
                  /\ rcLast' = RCCall("trackAnimationFrame", stream, FALSE)
             ELSE /\ UNCHANGED <<animationFrameId, lsScheduled, activeAnimationFrames>>
                  /\ rcOwed' = [rcOwed EXCEPT
                        !.mediaStreams = @ \cup {stream},
                        !.audioNodes = @ \cup {2 * stream - 1, 2 * stream}]
                  /\ rcLast' = RCCall("trackAudioNode", 2 * stream, FALSE)
    /\ FirstFrame(volume)
    /\ lsFed' = 1
    /\ lsTicks' = 0
    /\ isListening' = TRUE
    /\ lsCall' = "none"
    /\ UNCHANGED lsClosure
    /\ UNCHANGED <<activeAudioContexts, ctxState, closing, rcRaised, rcLog, rcAll>>

\* the display refreshes: a requested analyzeAudio runs, feeds one frame to
\* the detector and asks for the next frame when the closed-over isListening
\* is true
DisplayTick(volume, samples) ==
    /\ isListening
    /\ lsTicks < MaxTicks
    /\ lsTicks' = lsTicks + 1
    /\ IF lsScheduled
       THEN /\ Process(volume, samples)
            /\ lsFed' = lsFed + 1
            /\ IF lsClosure
               THEN /\ activeAnimationFrames' = activeAnimationFrames \cup {animationFrameId}
                    /\ rcOwed' = [rcOwed EXCEPT !.animationFrames = @ \cup {animationFrameId}]
                    /\ rcLast' = RCCall("trackAnimationFrame", animationFrameId, FALSE)
                    /\ UNCHANGED lsScheduled
               ELSE /\ lsScheduled' = FALSE
                    /\ UNCHANGED <<activeAnimationFrames, rcOwed, rcLast>>
       ELSE /\ UNCHANGED <<vadVars, vadObs, lsFed, lsScheduled>>
            /\ UNCHANGED <<activeAnimationFrames, rcOwed, rcLast>>
    /\ UNCHANGED <<isListening, lsCall, lsClosure, mediaStreamRef, animationFrameId, lsSessions>>
    /\ UNCHANGED <<activeAudioContexts, activeMediaStreams, activeAudioNodes,
                   ctxState, closing, liveStreams, rcRaised, rcLog, rcAll>>

\* stopListening(): the tracks of the current stream are stopped and the
\* requested frame is cancelled directly, the detector is reset
StopListening ==
    /\ isListening
    /\ liveStreams' = liveStreams \ {mediaStreamRef}
    /\ mediaStreamRef' = 0
    /\ animationFrameId' = 0
    /\ lsScheduled' = (lsScheduled /\ animationFrameId = 0)
    /\ Reset
    /\ isListening' = FALSE
    /\ UNCHANGED <<lsCall, lsClosure, lsSessions, lsFed, lsTicks>>
    /\ UNCHANGED <<activeAudioContexts, activeMediaStreams, activeAnimationFrames,
                   activeAudioNodes, ctxState, closing, rcOwed, rcLast, rcRaised, rcLog, rcAll>>

----------------------------------------------------------------------------
(* Specification of the listening session *)

LSRest == <<abmVars, zcrVars, utilVars>>

LSStartListening == StartListening /\ UNCHANGED LSRest
LSGetUserMediaRejects == GetUserMediaRejects /\ UNCHANGED LSRest
LSStartListeningFails == StartListeningFails /\ UNCHANGED LSRest
LSStartListeningCompletes ==
    (\E volume \in NoiseLevels : StartListeningCompletes(volume)) /\ UNCHANGED LSRest
LSDisplayTick ==
    (\E volume \in NoiseLevels, samples \in Frames :
        SteadyInput(volume) /\ DisplayTick(volume, samples))
    /\ UNCHANGED LSRest
LSStopListening == StopListening /\ UNCHANGED LSRest

NextLS ==
    \/ LSStartListening \/ LSGetUserMediaRejects \/ LSStartListeningFails
    \/ LSStartListeningCompletes \/ LSDisplayTick \/ LSStopListening

SpecLS == Init /\ [][NextLS]_vars

----------------------------------------------------------------------------
(* Properties of the listening session *)

\* C16: every stream, node and animation frame that a listening session
\* registers with ResourceCleanup is released through the registry when the
\* session ends, by stopListening or by a failure inside startListening:
\* between sessions getResourceStats() reports the counts from before the
\* first start, and no captured stream is left running.
C16_SessionReleasesAll ==
    (~isListening /\ lsCall = "none") =>
       /\ getResourceStats.mediaStreams = 0
       /\ getResourceStats.audioNodes = 0
       /\ getResourceStats.animationFrames = 0
       /\ liveStreams = {}

\* C17: while a listening session is active, the analysis loop feeds one
\* frame to process() on every display tick.
C17_FrameOnEveryTick == isListening => lsFed >= lsTicks

----------------------------------------------------------------------------
(* Specification of calculateZCR called on its own *)

CallZCR(samples) ==
    /\ zcrCalled' = TRUE
    /\ zcrSamples' = samples
    /\ zcrResult' = calculateZCR(samples)
    /\ zcrLegacy' = calculateZCRLegacy(samples)
    /\ zcrFrame' = FrameZCR(samples)

ZCRCall ==
    (\E samples \in AllFrames : CallZCR(samples))
    /\ UNCHANGED <<vadVars, vadObs, abmVars, rcVars, lsVars, utilVars>>

NextZCR == ZCRCall

SpecZCR == Init /\ [][NextZCR]_vars

\* every adjacent pair of samples has opposite signs
Alternating(samples) ==
    /\ Len(samples) >= 2
    /\ \A i \in 2..Len(samples) : samples[i] * samples[i - 1] < 0

InUnitInterval(x) == IsFinite(x) /\ ~JsLt(x, Zero) /\ ~JsGt(x, One)

\* C18: calculateZCR returns 1.0 for a frame in which every adjacent pair of
\* samples has opposite signs, such as [1, -1, 1, -1].
C18_AlternatingFrameIsOne ==
    (zcrCalled /\ Alternating(zcrSamples)) => zcrResult = One

\* C19: calculateZCR returns exactly 0.5 for an empty frame, process() uses
\* exactly 0.5 as the zero-crossing rate of a zero-length frame, and for
\* every non-empty frame the result lies in [0, 1].
C19_EmptyFrameIsHalf ==
    zcrCalled =>
       /\ zcrSamples = <<>> =>
             /\ zcrResult = Half
             /\ zcrLegacy = Half
             /\ zcrFrame = Half
       /\ zcrSamples # <<>> =>
             /\ InUnitInterval(zcrResult)
             /\ InUnitInterval(zcrLegacy)
             /\ InUnitInterval(zcrFrame)

----------------------------------------------------------------------------
(* Further properties of AdvancedVAD *)

\* the frames the detector has been given are numbers >= 0
ValidEnergies ==
    /\ \A i \in 1..Len(calibrationSamples) : IsFinite(calibrationSamples[i])
    /\ \A i \in 1..Len(energyHistory) : IsFinite(energyHistory[i])
    /\ IsFinite(lastCall.volume)

\* C21: every value passed to onConfidence is a number in [0, 1], equal to
\* (min(avgEnergy / (energyThreshold * 3), 1) + min(avgZCR / 0.3, 1)) / 2, for
\* every sequence of frames with energy >= 0 and every calibration outcome,
\* a calibration window of all-zero energies included.
C21_ConfidenceInUnitInterval ==
    ValidEnergies =>
       \A i \in 1..Len(events) :
          events[i].cb = "onConfidence" =>
             /\ InUnitInterval(events[i].arg)
             /\ events[i].arg = Confidence(Mean(energyHistory), Mean(zcrHistory))

\* a step of reset(): the only call that submits no energy
ResetStep == lastCall'.op = "reset" /\ submittedLog' = submittedLog

\* C22: reset() sets the state to Silence, both counters and the confidence
\* to 0 and empties both histories, fires no callback and leaves the
\* calibration alone; a speech start therefore always rests on 3 consecutive
\* speech-like frames, all of them classified after the last reset.
C22_ResetClearsDetection ==
    /\ [][ResetStep =>
             /\ isSpeaking' = FALSE
             /\ speechFrames' = 0 /\ silenceFrames' = 0
             /\ speechConfidence' = Zero
             /\ energyHistory' = <<>> /\ zcrHistory' = <<>>
             /\ events' = <<>>
             /\ UNCHANGED <<calibrationSamples, backgroundNoise,
                            energyThreshold, isCalibrated>>]_vars
    /\ [][(lastCall.op = "reset" /\ ~ResetStep)
             => Fired(events', "onSpeechStart") = 0]_vars
    /\ [](Fired(events, "onSpeechStart") = 1 =>
             /\ speechFrames = speechStartThreshold + 1
             /\ Len(energyHistory) >= speechStartThreshold + 1)

\* reset() was called on a calibrated detector, in the state it leaves
C22_Witness ==
    /\ lastCall.op = "reset"
    /\ isCalibrated
    /\ backgroundNoise = LowNoise
    /\ ~isSpeaking /\ energyHistory = <<>>

\* C23: the energy and ZCR histories always have the same length, at most
\* historySize, and hold exactly the newest min(k, historySize) of the k frames
\* classified since calibration or the last reset, in arrival order; they are
\* never empty after a frame was classified.
C23_HistoriesAreNewestFrames ==
    /\ Len(energyHistory) = Len(zcrHistory)
    /\ Len(energyHistory) <= historySize
    /\ Len(energyHistory) = Len(recent)
    /\ \A i \in 1..Len(recent) :
          /\ i <= Len(energyHistory) => energyHistory[i] = recent[i].energy
          /\ i <= Len(zcrHistory) => zcrHistory[i] = recent[i].zcr
    /\ (lastCall.op = "process" /\ lastCall.calibrated) => energyHistory # <<>>

\* more than historySize frames were classified and the oldest differs from
\* the newest
C23_Witness ==
    /\ Len(energyHistory) = historySize
    /\ silenceFrames + speechFrames > historySize
    /\ energyHistory[1] # energyHistory[historySize]
    /\ zcrHistory[1] # zcrHistory[historySize]

\* the two criteria, on the averages of the stored histories
energySpeech == JsGt(Mean(energyHistory), energyThreshold)
zcrSpeech == JsGt(Mean(zcrHistory), zcrThreshold)

\* C24: a frame is speech-like only if the smoothed energy is strictly above
\* the energy threshold and the smoothed ZCR strictly above 0.3. A frame that
\* meets one criterion only adds to silenceFrames, zeroes speechFrames and
\* starts no speech; onSpeechStart fires only on the third frame in a row on
\* which both criteria held.
C24_BothCriteriaNeeded ==
    /\ []((lastCall.op = "process" /\ lastCall.calibrated) =>
            \E both \in {energySpeech /\ zcrSpeech} :
               /\ speechFrames > 0 <=> both
               /\ silenceFrames > 0 <=> ~both
               /\ Fired(events, "onSpeechStart") = 1 =>
                     both /\ speechFrames = speechStartThreshold + 1)
    /\ [][Classifies =>
            /\ speechFrames' \in {0, speechFrames + 1}
            /\ silenceFrames' \in {0, silenceFrames + 1}]_vars

\* three frames in a row met the energy criterion alone
C24_Witness ==
    /\ lastCall.op = "process" /\ lastCall.calibrated
    /\ JsGt(energyThreshold, Zero)
    /\ energySpeech /\ ~zcrSpeech
    /\ \A i \in 1..Len(recent) :
          JsGt(recent[i].energy, energyThreshold) /\ ~JsGt(recent[i].zcr, zcrThreshold)
    /\ silenceFrames = 3
    /\ ~isSpeaking

\* every frame the histories hold is a zero-length frame
OnlyEmptyFrames == recent # <<>> /\ \A i \in 1..Len(recent) : recent[i].empty

\* C25: the neutral ZCR 0.5 of a zero-length frame is no evidence of speech:
\* zero-length frames alone never make the ZCR criterion true, so a run of
\* zero-length frames never leads to onSpeechStart.
C25_EmptyFramesAreNeutral ==
    OnlyEmptyFrames => ~zcrSpeech /\ Fired(events, "onSpeechStart") = 0

----------------------------------------------------------------------------
(* Specification of the detector fed by analyzeAudio, malformed frames     *)
(* included                                                                *)

\* analyzeAudio: the volume is sqrt(sum / dataArray.length), NaN for an
\* analyser that delivers no samples
FeedFrame(volume) == IF IsNaN(volume) THEN <<>> ELSE <<1, -1, 1, -1>>

\* the room is at LowNoise during calibration; a malformed frame arrives at
\* most once in that time, among the first MaxMalformedAt frames
FeedInput(volume) ==
    \/ isCalibrated /\ volume \in {Zero, Voice, NaN}
    \/ ~isCalibrated /\ volume = LowNoise
    \/ /\ ~isCalibrated /\ volume = NaN
       /\ Len(submittedLog) < MaxMalformedAt
       /\ \A i \in 1..Len(submittedLog) : ~IsNaN(submittedLog[i])

\* the pairing of the speech callbacks after the callbacks evs of one call
Paired(p, evs) ==
    IF Fired(evs, "onSpeechStart") > 0
    THEN (IF p = "closed" THEN "open" ELSE "broken")
    ELSE IF Fired(evs, "onSpeechEnd") > 0
    THEN (IF p = "open" THEN "closed" ELSE "broken")
    ELSE p

FeedProcess ==
    /\ \E volume \in {Zero, LowNoise, Voice, NaN} :
          FeedInput(volume) /\ Process(volume, FeedFrame(volume))
    /\ pairing' = Paired(pairing, events')
    /\ UNCHANGED <<abmVars, rcVars, lsVars, zcrVars, valVars, apVars, ehVars>>

FeedReset ==
    /\ Reset
    /\ pairing' = Paired(pairing, events')
    /\ UNCHANGED <<abmVars, rcVars, lsVars, zcrVars, valVars, apVars, ehVars>>

NextFeed == FeedProcess \/ FeedReset

SpecFeed == Init /\ [][NextFeed]_vars

\* C26: a NaN energy degrades to a neutral value: it is never stored as NaN
\* in the calibration samples or in the smoothing history, and it makes
\* neither backgroundNoise nor energyThreshold nor an emitted confidence NaN.
C26_NaNIsNeutralised ==
    /\ \A i \in 1..Len(calibrationSamples) : ~IsNaN(calibrationSamples[i])
    /\ \A i \in 1..Len(energyHistory) : ~IsNaN(energyHistory[i])
    /\ ~IsNaN(backgroundNoise)
    /\ ~IsNaN(energyThreshold)
    /\ \A i \in 1..Len(events) :
          events[i].cb = "onConfidence" => ~IsNaN(events[i].arg)

\* C27: over every sequence of process() and reset() calls onSpeechStart and
\* onSpeechEnd alternate strictly, beginning with onSpeechStart.
C27_CallbacksAlternate == pairing # "broken"

----------------------------------------------------------------------------
(* SpeechInputValidator *)

\* characters of the first k tokens of text
RECURSIVE Chars(_, _)
Chars(text, k) == IF k = 0 THEN 0 ELSE Chars(text, k - 1) + TokLen(text[k])

\* pattern.test(text) of a global pattern whose lastIndex is from: the search
\* starts at from; a match leaves lastIndex behind the match, a failure
\* leaves it at 0
Test(pattern, text, from) ==
    LET hits == {i \in 1..Len(text) : text[i] = pattern /\ Chars(text, i - 1) >= from}
    IN  IF hits = {} THEN [found |-> FALSE, lastIndex |-> 0]
        ELSE [found |-> TRUE,
              lastIndex |-> Chars(text, CHOOSE i \in hits : \A j \in hits : i <= j)]

\* the loop over DANGEROUS_PATTERNS from pattern k on: whether one matched,
\* and the lastIndex of every pattern afterwards
RECURSIVE TestFrom(_, _, _)
TestFrom(k, text, li) ==
    IF k > Len(DANGEROUS_PATTERNS) THEN [dangerous |-> FALSE, lastIndex |-> li]
    ELSE LET t == Test(DANGEROUS_PATTERNS[k], text, li[k])
             after == [li EXCEPT ![k] = t.lastIndex]
         IN  IF t.found THEN [dangerous |-> TRUE, lastIndex |-> after]
             ELSE TestFrom(k + 1, text, after)

\* sanitizeInput: tags are removed and "/" is escaped
RECURSIVE sanitizeInput(_)
sanitizeInput(text) ==
    IF text = <<>> THEN <<>>
    ELSE (CASE Head(text) = "<script></script>" -> <<>>
            [] Head(text) = "data:text/html" -> <<"data:text&#x2F;html">>
            [] OTHER -> <<Head(text)>>) \o sanitizeInput(Tail(text))

\* validateSpeechInput(text) with the patterns at lastIndex li
validateSpeechInput(text, li) ==
    IF text = <<>>
    THEN [result |-> [isValid |-> FALSE, error |-> "empty", sanitized |-> <<>>],
          lastIndex |-> li]
    ELSE IF Chars(text, Len(text)) < MIN_SPEECH_LENGTH
    THEN [result |-> [isValid |-> FALSE, error |-> "short", sanitized |-> <<>>],
          lastIndex |-> li]
    ELSE IF Chars(text, Len(text)) > MAX_SPEECH_LENGTH
    THEN [result |-> [isValid |-> FALSE, error |-> "long", sanitized |-> <<>>],
          lastIndex |-> li]
    ELSE LET tested == TestFrom(1, text, li)
         IN  IF tested.dangerous
             THEN [result |-> [isValid |-> FALSE, error |-> "dangerous", sanitized |-> <<>>],
                   lastIndex |-> tested.lastIndex]
             ELSE [result |-> [isValid |-> TRUE, error |-> "none",
                               sanitized |-> sanitizeInput(text)],
                   lastIndex |-> tested.lastIndex]

\* one call of SpeechInputValidator.validateSpeechInput(text)
ValidateSpeechInput(text) ==
    \E call \in {validateSpeechInput(text, lastIndex)} :
       /\ valText' = text
       /\ valResult' = call.result
       /\ lastIndex' = call.lastIndex

ValCall ==
    /\ \E text \in Texts : ValidateSpeechInput(text)
    /\ UNCHANGED <<vadVars, vadObs, abmVars, rcVars, lsVars, zcrVars, pairing, apVars, ehVars>>

NextVal == ValCall

SpecVal == Init /\ [][NextVal]_vars

\* text holds something one of the dangerous patterns matches
Dangerous(text) ==
    \E i \in 1..Len(text), k \in 1..Len(DANGEROUS_PATTERNS) :
       text[i] = DANGEROUS_PATTERNS[k]

\* C28: validateSpeechInput is deterministic across calls: what it returns
\* for a text is what a first call returns for it, and a text that holds a
\* dangerous pattern is rejected on every call.
C28_ValidatorIsDeterministic ==
    valResult # NoResult =>
       /\ valResult = validateSpeechInput(valText, [k \in 1..Len(DANGEROUS_PATTERNS) |-> 0]).result
       /\ Dangerous(valText) => ~valResult.isValid

----------------------------------------------------------------------------
(* AudioPlayer *)

\* the body of stop(): it acts only on a current source with isPlaying set;
\* the stopped node queues its ended event
stop(src) ==
    IF currentSource # 0 /\ playerPlaying
    THEN [src EXCEPT ![currentSource] =
             IF @.status = "playing" THEN [status |-> "stopped", pending |-> TRUE] ELSE @]
    ELSE src

\* playBase64Audio up to its await: stop() and atob(); atob throws on text
\* that is no base64, and the catch block clears isPlaying
PlayBase64Audio(valid) ==
    /\ plays < MaxPlays
    /\ plays' = plays + 1
    /\ sources' = stop(sources)
    /\ currentSource' = IF currentSource # 0 /\ playerPlaying THEN 0 ELSE currentSource
    /\ playerPlaying' = FALSE
    /\ decoding' = IF valid THEN decoding + 1 ELSE decoding
    /\ apLast' = [op |-> "play", id |-> 0]

\* decodeAudioData resolves: the rest of playBase64Audio creates the source,
\* sets its onended, starts it and sets isPlaying
DecodeResolves ==
    /\ decoding > 0
    /\ decoding' = decoding - 1
    /\ sources' = Append(sources, [status |-> "playing", pending |-> FALSE])
    /\ currentSource' = Len(sources) + 1
    /\ playerPlaying' = TRUE
    /\ apLast' = [op |-> "start", id |-> Len(sources) + 1]
    /\ UNCHANGED plays

\* decodeAudioData rejects: the catch block
DecodeRejects ==
    /\ decoding > 0
    /\ decoding' = decoding - 1
    /\ playerPlaying' = FALSE
    /\ apLast' = [op |-> "reject", id |-> 0]
    /\ UNCHANGED <<sources, currentSource, plays>>

\* stop()
PlayerStop ==
    /\ sources' = stop(sources)
    /\ currentSource' = IF currentSource # 0 /\ playerPlaying THEN 0 ELSE currentSource
    /\ playerPlaying' = IF currentSource # 0 /\ playerPlaying THEN FALSE ELSE playerPlaying
    /\ apLast' = [op |-> "stop", id |-> 0]
    /\ UNCHANGED <<decoding, plays>>

\* source i plays to its end and queues its ended event
SourceEnds(i) ==
    /\ sources[i].status = "playing"
    /\ sources' = [sources EXCEPT ![i] = [status |-> "ended", pending |-> TRUE]]
    /\ apLast' = [op |-> "ends", id |-> i]
    /\ UNCHANGED <<currentSource, playerPlaying, decoding, plays>>

\* the onended handler of source i runs
SourceOnEnded(i) ==
    /\ sources[i].pending
    /\ sources' = [sources EXCEPT ![i].pending = FALSE]
    /\ playerPlaying' = FALSE
    /\ currentSource' = 0
    /\ apLast' = [op |-> "onended", id |-> i]
    /\ UNCHANGED <<decoding, plays>>

APRest == <<vadVars, vadObs, abmVars, rcVars, lsVars, zcrVars, pairing, valVars, ehVars>>

APPlay == (\E valid \in BOOLEAN : PlayBase64Audio(valid)) /\ UNCHANGED APRest
APDecodeResolves == DecodeResolves /\ UNCHANGED APRest
APDecodeRejects == DecodeRejects /\ UNCHANGED APRest
APStop == PlayerStop /\ UNCHANGED APRest
APSourceEnds == (\E i \in 1..Len(sources) : SourceEnds(i)) /\ UNCHANGED APRest
APSourceOnEnded == (\E i \in 1..Len(sources) : SourceOnEnded(i)) /\ UNCHANGED APRest

NextAP ==
    \/ APPlay \/ APDecodeResolves \/ APDecodeRejects
    \/ APStop \/ APSourceEnds \/ APSourceOnEnded

SpecAP == Init /\ [][NextAP]_vars

\* the sources that can be heard
AudibleSources == {i \in 1..Len(sources) : sources[i].status = "playing"}

\* the most recently started source has neither been stopped nor ended; a
\* source has ended for the player once its ended event was delivered
NewestLive ==
    /\ sources # <<>>
    /\ \/ sources[Len(sources)].status = "playing"
       \/ sources[Len(sources)].status = "ended" /\ sources[Len(sources)].pending

\* C29: at most one source is audible; isCurrentlyPlaying() is true exactly
\* when the most recently started source has neither ended nor been stopped;
\* the onended of an earlier source never clears the state of a newer one.
C29_OneSourceAtATime ==
    /\ Cardinality(AudibleSources) <= 1
    /\ playerPlaying <=> NewestLive
    /\ (apLast.op = "onended" /\ apLast.id < Len(sources) /\ NewestLive)
          => playerPlaying /\ currentSource = Len(sources)

----------------------------------------------------------------------------
(* VoiceAIErrorHandler *)

\* handleError up to its first await: with the limit reached it deletes the
\* counter and returns false, else it stores the count and runs a strategy
HandleError ==
    /\ enableAutoRecovery
    /\ handled < MaxCalls
    /\ handled' = handled + 1
    /\ \E currentRetries \in {retryCount} :
          IF currentRetries >= maxRetries
          THEN /\ retryCount' = 0
               /\ ehLast' = [op |-> "gave up", returned |-> FALSE]
               /\ failRun' = 0
               /\ UNCHANGED inFlight
          ELSE /\ retryCount' = currentRetries + 1
               /\ inFlight' = inFlight + 1
               /\ ehLast' = [op |-> "attempt", returned |-> FALSE]
               /\ UNCHANGED failRun

\* the strategy of a call in flight resolves true: delete the counter,
\* return true
StrategySucceeds ==
    /\ inFlight > 0
    /\ inFlight' = inFlight - 1
    /\ retryCount' = 0
    /\ failRun' = 0
    /\ ehLast' = [op |-> "success", returned |-> TRUE]
    /\ UNCHANGED handled

\* every strategy of a call in flight resolves false, throws or times out:
\* return false after the delay
StrategyFails ==
    /\ inFlight > 0
    /\ inFlight' = inFlight - 1
    /\ failRun' = failRun + 1
    /\ ehLast' = [op |-> "failure", returned |-> FALSE]
    /\ UNCHANGED <<retryCount, handled>>

EHRest == <<vadVars, vadObs, abmVars, rcVars, lsVars, zcrVars, pairing, valVars, apVars>>

EHHandleError == HandleError /\ UNCHANGED EHRest
EHStrategySucceeds == StrategySucceeds /\ UNCHANGED EHRest
EHStrategyFails == StrategyFails /\ UNCHANGED EHRest

NextEH == EHHandleError \/ EHStrategySucceeds \/ EHStrategyFails

SpecEH == Init /\ [][NextEH]_vars

\* C30: a stored retry count is always between 1 and maxRetries; after
\* maxRetries consecutive unsuccessful attempts the next call gives up: it
\* runs no strategy, deletes the counter and returns false; a successful
\* strategy deletes the counter and returns true. Calls for the same key
\* may overlap.
C30_GivesUpAfterMaxRetries ==
    /\ retryCount \in 0..maxRetries
    /\ ehLast.op = "success" => retryCount = 0 /\ ehLast.returned
    /\ ehLast.op = "gave up" => retryCount = 0 /\ ~ehLast.returned
    /\ ehLast.op = "attempt" => failRun < maxRetries

============================================================================
